---------------------------- MODULE Spec2Model ----------------------------
(***************************************************************************)
(* vendman: a vendoring dependency manager (src/src/main.rs, types.rs).    *)
(*                                                                         *)
(* The state is the filesystem under <home>/.vendman: the managed root     *)
(* directory, the manifest file config.toml and one clone directory per    *)
(* dependency name.  Every invocation of the tool runs `process` once, to  *)
(* completion; each subcommand is one action.  The git provider (git2) and *)
(* the filesystem may fail at any call: the failing call is an input of    *)
(* the action.  Invocations are sequential: `last` holds the invocation    *)
(* that has run and not yet exited (what it was given, the provider calls  *)
(* it made, what it returned and the filesystem it started from), and is   *)
(* Idle between invocations.                                               *)
(*                                                                         *)
(* Spec is the sequential program.  SpecUpstream adds pushes to the        *)
(* upstream repositories (upstream: the tip of every branch).  SpecRace    *)
(* runs two vends step by step (procs: load, clone, save), and a clean,    *)
(* at the same time, in a workspace built by earlier invocations.          *)
(*                                                                         *)
(* Strings that the program takes apart or compares (locators, names) are  *)
(* sequences of byte values; the others are TLA+ strings.                  *)
(***************************************************************************)
EXTENDS Naturals, Sequences, FiniteSets, TLC

VARIABLES home, config, dirs, last, upstream, procs

vars == <<home, config, dirs, last, upstream, procs>>

----------------------------------------------------------------------------
(* Bounds and inputs *)

\* Number of distinct non-empty dependency names the locators derive.
NumNames == 2

\* '/' : the separator of repo.split('/')
Slash == 47

\* The i-th dependency name: "b", "ac", "d", "ae", ... (so that byte-wise
\* lexicographic order differs from order by i and from order by length).
NameOf(i) == IF i % 2 = 1 THEN <<97 + i>> ELSE <<97, 97 + i>>

\* The locators given to vend -r: "u/<name>" for every name, "v/<first
\* name>" (another upstream with the same final segment), the last name
\* alone (no '/'), and "u/<first name>/" (a trailing '/').
Locators ==
    { <<117, Slash>> \o NameOf(i) : i \in 1..NumNames }
      \cup { <<118, Slash>> \o NameOf(1) }
      \cup { NameOf(NumNames) }
      \cup { <<117, Slash>> \o NameOf(1) \o <<Slash>> }

\* Option<String>
None == [some |-> FALSE]
Some(b) == [some |-> TRUE, val |-> b]

\* The values of vend -b
Branches == {None, Some("dev"), Some("rel")}

\* The branches of an upstream repository: its default branch and the ones
\* vend -b names.
UpstreamBranches == {"main"} \cup { b.val : b \in Branches \ {None} }

\* The pushes the upstream repositories receive in SpecUpstream.
MaxPushes == 1

----------------------------------------------------------------------------
(* Pure helpers *)

SetMax(S) == CHOOSE m \in S : \A k \in S : k <= m

\* repo.split('/').last().unwrap(): the text after the last '/', the whole
\* text when there is none, the empty text when the locator ends in '/'.
DeriveName(repo) ==
    LET cuts == { i \in 1..Len(repo) : repo[i] = Slash }
    IN  IF cuts = {} THEN repo
        ELSE SubSeq(repo, SetMax(cuts) + 1, Len(repo))

\* String's Ord: byte-wise lexicographic, a proper prefix first.
RECURSIVE StrLess(_, _)
StrLess(a, b) ==
    IF b = <<>> THEN FALSE
    ELSE IF a = <<>> THEN TRUE
    ELSE IF a[1] # b[1] THEN a[1] < b[1]
    ELSE StrLess(Tail(a), Tail(b))

\* The names a clone directory can have under the managed root.
Names == { DeriveName(l) : l \in Locators } \ { <<>> }

\* enum Dependency
Dep(path) == [tag |-> "Dep", path |-> path]
DepWithHash(path, branch) == [tag |-> "DepWithHash", path |-> path, branch |-> branch]

\* struct Config
Config(version, dependencies) == [version |-> version, dependencies |-> dependencies]

\* HashMap::insert: the entry under key is replaced, the others are kept.
MapInsert(map, key, value) ==
    [k \in DOMAIN map \cup {key} |-> IF k = key THEN value ELSE map[k]]

\* Default::default() of the dependencies map
EmptyMap == [k \in {} |-> None]

----------------------------------------------------------------------------
(* The filesystem *)

\* Contents of <home>/.vendman/config.toml.  The TOML text itself is the
\* toml crate's; a file either holds the encoding of a Config or bytes
\* that do not decode to one (an empty or cut-off file).
NoFile == [kind |-> "absent"]
Garbage == [kind |-> "garbage"]
TomlFile(c) == [kind |-> "toml", value |-> c]

\* toml::to_string(&config).unwrap()
to_string(c) == TomlFile(c)

\* toml::from_str: Ok(config) or Err
from_str(file) ==
    IF file.kind = "toml" THEN [ok |-> TRUE, value |-> file.value]
    ELSE [ok |-> FALSE]

\* A directory <home>/.vendman/<name>: missing, or what a failed clone
\* left behind (not empty, and not a repository), or a clone (CloneOf).
NoDir == [kind |-> "absent"]
PartialDir == [kind |-> "partial"]

\* The k-th commit of branch `branch` of the upstream repository at `repo`
CommitId(repo, branch, k) == <<repo, branch, k>>

\* The head of the upstream repository at a locator: its default branch and
\* that branch's tip.
RemoteHead(repo) ==
    [ref |-> "main", commit |-> CommitId(repo, "main", upstream[repo]["main"])]

\* A clone of `repo`: a repository whose origin is repo, whose head is the
\* upstream head (Repository::clone is given no branch), and whose
\* remote-tracking refs are the upstream branches as the clone found them.
CloneOf(repo) ==
    [kind |-> "repo", origin |-> repo, head |-> RemoteHead(repo),
     remotes |-> upstream[repo]]

\* repo.path(): the .git directory of the clone at <home>/.vendman/<name>
RepoPath(name) == <<name, ".git">>

\* What running `process` to its end leaves: the filesystem, the Result it
\* returns (res: "ok" or the error text), the provider calls it issued, in
\* order, and what it computed on the way (info).
Outcome(h, c, d, res, calls, info) ==
    [home |-> h, config |-> c, dirs |-> d, res |-> res, calls |-> calls, info |-> info]

NoInfo == [none |-> TRUE]

\* An early return that has touched nothing.
Abort(err) == Outcome(home, config, dirs, err, <<>>, NoInfo)

Call(call, name) == [call |-> call, name |-> name]

\* enforce_config without its config.exists() test: a missing file is a
\* file that cannot be read.
EnforceConfigNoExistsCheck(readFails) ==
    IF config.kind = "absent" \/ readFails
    THEN [ok |-> FALSE, err |-> "Can't read config file"]
    ELSE IF ~from_str(config).ok THEN [ok |-> FALSE, err |-> "Can't parse config file"]
    ELSE [ok |-> TRUE, value |-> from_str(config).value]

\* enforce_config: Err when the manifest file does not exist, cannot be
\* read (readFails) or does not parse; Ok(config) otherwise.
EnforceConfig(readFails) ==
    IF config.kind = "absent" THEN [ok |-> FALSE, err |-> "NotInitialized"]
    ELSE IF readFails THEN [ok |-> FALSE, err |-> "Can't read config file"]
    ELSE IF ~from_str(config).ok THEN [ok |-> FALSE, err |-> "Can't parse config file"]
    ELSE [ok |-> TRUE, value |-> from_str(config).value]

----------------------------------------------------------------------------
(* vendman init *)

\* init without its home.exists() test: an existing manifest is written
\* anew.
InitializeUnguarded(fsFault) ==
    Outcome(TRUE, to_string(Config("0.1.0", EmptyMap)), dirs, "ok", <<>>, NoInfo)

\* Command::Init.  fsFault: the filesystem call that fails, or "none".
Initialize(fsFault) ==
    IF home
    THEN Outcome(home, config, dirs, "ok", <<>>, NoInfo)
    ELSE Outcome(fsFault # "create_dir",
                 CASE fsFault = "none" -> to_string(Config("0.1.0", EmptyMap))
                   [] fsFault = "write_all" -> Garbage
                   [] OTHER -> NoFile,
                 dirs,
                 CASE fsFault = "none" -> "ok"
                   [] fsFault = "create_dir" -> "Can't create .vendman directory"
                   [] fsFault = "open" -> "Can't create config file"
                   [] OTHER -> "Can't write to config file",
                 <<>>, NoInfo)

----------------------------------------------------------------------------
(* vendman vend -r repo [-b branch] *)

\* Repository::clone(&repo, home.join(name)).  git2 refuses a destination
\* that exists and is not an empty directory: home.join("") is the managed
\* root itself, which holds config.toml.  Otherwise the clone succeeds, or
\* fails (fault "clone": nothing is left; "clone_leaves_dir": a partial
\* directory is left).
CloneInto(repo, name, fault) ==
    IF name = <<>> \/ dirs[name].kind # "absent"
    THEN [ok |-> FALSE, dirs |-> dirs]
    ELSE IF fault = "clone" THEN [ok |-> FALSE, dirs |-> dirs]
    ELSE IF fault = "clone_leaves_dir"
    THEN [ok |-> FALSE, dirs |-> [dirs EXCEPT ![name] = PartialDir]]
    ELSE [ok |-> TRUE, dirs |-> [dirs EXCEPT ![name] = CloneOf(repo)]]

\* The match with its Some arm building what the None arm builds.
VendDepDroppingBranch(path, branch) == Dep(path)

\* match branch { Some(branch) => DepWithHash(path, branch), None => Dep(path) }
VendDep(path, branch) ==
    IF branch.some THEN DepWithHash(path, branch.val) ELSE Dep(path)

\* A save that inserts into the manifest as the file holds it at the time
\* of the write, not into the value the invocation loaded.
SaveMerging(config_file, name, dep, fault) ==
    CASE fault = "write" -> config
      [] fault = "write_cut" -> Garbage
      [] OTHER ->
           LET now == from_str(config)
               deps == IF now.ok THEN now.value.dependencies
                       ELSE config_file.dependencies
           IN  to_string(Config(config_file.version, MapInsert(deps, name, dep)))

\* config_file.dependencies.insert(name, dep); std::fs::write(config, ...):
\* the manifest file after the write.  std::fs::write creates or truncates
\* the file and then writes: fault "write" fails before the file is
\* touched, "write_cut" after it was truncated.
SaveInserted(config_file, name, dep, fault) ==
    CASE fault = "write" -> config
      [] fault = "write_cut" -> Garbage
      [] OTHER -> to_string(Config(config_file.version,
                                   MapInsert(config_file.dependencies, name, dep)))

VendFaults == {"none", "clone", "clone_leaves_dir", "write", "write_cut"}

\* vend without the `?` after Repository::clone: the insert and the save
\* run whatever the clone returned.
VendIgnoringCloneError(repo, branch, fault, readFails) ==
    LET cf == EnforceConfig(readFails)
        name == DeriveName(repo)
        cloned == CloneInto(repo, name, fault)
    IN  IF ~cf.ok THEN Abort(cf.err)
        ELSE Outcome(TRUE,
                     SaveInserted(cf.value, name, VendDep(RepoPath(name), branch), fault),
                     cloned.dirs,
                     IF fault \in {"write", "write_cut"}
                     THEN "Can't write to config file" ELSE "ok",
                     <<Call("clone", name)>>,
                     [name |-> name, cloned |-> cloned.ok, fault |-> fault])

\* Command::Vend
Vend(repo, branch, fault, readFails) ==
    LET cf == EnforceConfig(readFails)
        name == DeriveName(repo)
        cloned == CloneInto(repo, name, fault)
        calls == <<Call("clone", name)>>
        info == [name |-> name, cloned |-> cloned.ok, fault |-> fault]
    IN  IF ~cf.ok THEN Abort(cf.err)
        ELSE IF ~cloned.ok
        THEN Outcome(home, config, cloned.dirs, "Can't clone repository", calls, info)
        ELSE Outcome(TRUE,
                     SaveInserted(cf.value, name, VendDep(RepoPath(name), branch), fault),
                     cloned.dirs,
                     IF fault \in {"write", "write_cut"}
                     THEN "Can't write to config file" ELSE "ok",
                     calls, info)

----------------------------------------------------------------------------
(* vendman clean *)

\* A removal of the manifest file alone: the clones stay.
RemoveManifestOnly(fault, goneConfig, goneDirs) ==
    [home |-> TRUE, config |-> IF fault /\ ~goneConfig THEN config ELSE NoFile,
     dirs |-> dirs]

\* std::fs::remove_dir_all(&home): everything under the managed root and
\* the root itself are removed; when it fails (fault), the root stays and
\* goneConfig / goneDirs say what had been removed before the failure.
RemoveDirAll(fault, goneConfig, goneDirs) ==
    IF fault
    THEN [home |-> TRUE,
          config |-> IF goneConfig THEN NoFile ELSE config,
          dirs |-> [n \in Names |-> IF n \in goneDirs THEN NoDir ELSE dirs[n]]]
    ELSE [home |-> FALSE, config |-> NoFile, dirs |-> [n \in Names |-> NoDir]]

\* Command::Clean
Clean(fault, goneConfig, goneDirs, readFails) ==
    LET cf == EnforceConfig(readFails)
        fs == RemoveDirAll(fault, goneConfig, goneDirs)
    IN  IF ~cf.ok THEN Abort(cf.err)
        ELSE Outcome(fs.home, fs.config, fs.dirs,
                     IF fault THEN "Can't remove .vendman directory" ELSE "ok",
                     <<>>, NoInfo)

----------------------------------------------------------------------------
(* vendman update *)

\* A provider fault: the call (the step-th provider call made for the
\* dependency `name`) that fails.  NoFault: none does.
NoFault == [name |-> <<>>, step |-> 0]
Fault(name, step) == [name |-> name, step |-> step]

\* The provider calls update makes for one dependency, in order.
UpdateSteps(dep) ==
    IF dep.tag = "Dep"
    THEN <<"open", "find_remote", "fetch">>
    ELSE <<"open", "find_remote", "fetch", "open", "checkout_head">>

ListSteps == <<"open", "head", "peel_to_commit">>

\* The first call for `name` that fails, 0 when none does: Repository::open
\* fails on a directory that is missing or holds no repository.
FirstFailure(name, fault) ==
    IF dirs[name].kind # "repo" THEN 1
    ELSE IF fault.name = name THEN fault.step
    ELSE 0

\* The map_err texts of the update arms, after the "[{name}] " they start
\* with (the name is info.failed).
UpdateError(step) ==
    CASE step = "open" -> "Can't open repository"
      [] step = "find_remote" -> "Can't find remote"
      [] step = "fetch" -> "Can't fetch repo"
      [] OTHER -> "Can't checkout branch"

\* remote.fetch(&["origin"], None, None) in a clone.  The refspec is the
\* text "origin", which names no branch of the upstream: no remote-tracking
\* ref moves, and no fetch moves the head of the clone.
Fetch(dir) == dir

\* repo.checkout_head(None): the working tree is reset to the commit the
\* head of the clone already points to; the head itself is not moved.
CheckoutHead(dir) == dir

\* format!("{name}") and format!("{name}/*{branch}*")
Updated(name, dep) ==
    IF dep.tag = "Dep" THEN [name |-> name, branch |-> None]
    ELSE [name |-> name, branch |-> Some(dep.branch)]

\* The refspecs both arms give to remote.fetch: &["origin"]
FetchRefspecs(dep) == <<"origin">>

\* A provider call of update: the fetch with the remote it was found by
\* (find_remote("origin")) and its refspecs.
UpdateCall(step, name, dep) ==
    IF step = "fetch"
    THEN [call |-> step, name |-> name, remote |-> "origin",
          refspecs |-> FetchRefspecs(dep)]
    ELSE Call(step, name)

\* One pass of the body of `for (name, dep) in config_file.dependencies`.
UpdateOne(name, dep, fault, d) ==
    LET steps == UpdateSteps(dep)
        f == FirstFailure(name, fault)
        issued == IF f = 0 THEN Len(steps) ELSE f
        done == issued - (IF f = 0 THEN 0 ELSE 1)
        d1 == IF done >= 3 THEN [d EXCEPT ![name] = Fetch(d[name])] ELSE d
        d2 == IF done >= 5 THEN [d1 EXCEPT ![name] = CheckoutHead(d1[name])] ELSE d1
    IN  [ok |-> f = 0,
         err |-> IF f = 0 THEN "" ELSE UpdateError(steps[f]),
         calls |-> [i \in 1..issued |-> UpdateCall(steps[i], name, dep)],
         dirs |-> d2]

\* The for loop of update over the dependencies in iteration order `order`:
\* `?` returns at the first error.
RECURSIVE UpdateLoop(_, _, _, _)
UpdateLoop(deps, order, fault, acc) ==
    IF order = <<>> THEN [acc EXCEPT !.res = "ok"]
    ELSE LET name == Head(order)
             one == UpdateOne(name, deps[name], fault, acc.dirs)
             calls == acc.calls \o one.calls
         IN  IF ~one.ok
             THEN [res |-> one.err, failed |-> {name}, dirs |-> one.dirs,
                   calls |-> calls, updated |-> acc.updated]
             ELSE UpdateLoop(deps, Tail(order), fault,
                             [res |-> "", failed |-> {}, dirs |-> one.dirs,
                              calls |-> calls,
                              updated |-> Append(acc.updated, Updated(name, deps[name]))])

\* The dependencies the provider fails for in this run.
Faulty(deps, fault) == { n \in DOMAIN deps : FirstFailure(n, fault) # 0 }

\* update that writes the manifest back with the dependencies it updated.
UpdateSavingManifest(order, fault, readFails) ==
    LET cf == EnforceConfig(readFails)
        run == UpdateLoop(cf.value.dependencies, order, fault,
                          [res |-> "", failed |-> {}, dirs |-> dirs, calls |-> <<>>,
                           updated |-> <<>>])
        kept == { run.updated[i].name : i \in 1..Len(run.updated) }
    IN  IF ~cf.ok THEN Abort(cf.err)
        ELSE Outcome(home,
                     to_string(Config(cf.value.version,
                                      [n \in kept |-> cf.value.dependencies[n]])),
                     run.dirs, run.res, run.calls,
                     [order |-> order, updated |-> run.updated, failed |-> run.failed,
                      faulty |-> Faulty(cf.value.dependencies, fault),
                      output |-> IF run.res = "ok" THEN <<"Dependencies updated">> ELSE <<>>])

\* Command::Update.  `order` is the iteration order of the HashMap.  What
\* is returned is Ok("Dependencies updated") or the first error; `updated`
\* is dropped.
Update(order, fault, readFails) ==
    LET cf == EnforceConfig(readFails)
        run == UpdateLoop(cf.value.dependencies, order, fault,
                          [res |-> "", failed |-> {}, dirs |-> dirs, calls |-> <<>>,
                           updated |-> <<>>])
    IN  IF ~cf.ok THEN Abort(cf.err)
        ELSE Outcome(home, config, run.dirs, run.res, run.calls,
                     [order |-> order, updated |-> run.updated, failed |-> run.failed,
                      faulty |-> Faulty(cf.value.dependencies, fault),
                      output |-> IF run.res = "ok" THEN <<"Dependencies updated">> ELSE <<>>])

----------------------------------------------------------------------------
(* vendman ls *)

\* head.shorthand().unwrap_or("HEAD") and commit.id() of a clone
Row(name, dir) == [name |-> name, branch |-> dir.head.ref, hash |-> dir.head.commit]

ListError(step) ==
    CASE step = "open" -> "Can't open repository"
      [] step = "head" -> "Can't get head"
      [] OTHER -> "Can't peel to commit"

\* The for loop of list: `?` returns at the first error.
RECURSIVE ListLoop(_, _, _)
ListLoop(order, fault, acc) ==
    IF order = <<>> THEN [acc EXCEPT !.res = "ok"]
    ELSE LET name == Head(order)
             f == FirstFailure(name, fault)
             issued == IF f = 0 THEN Len(ListSteps) ELSE f
             calls == acc.calls \o [i \in 1..issued |-> Call(ListSteps[i], name)]
         IN  IF f # 0
             THEN [res |-> ListError(ListSteps[f]), failed |-> {name}, calls |-> calls,
                   table |-> acc.table]
             ELSE ListLoop(Tail(order), fault,
                           [res |-> "", failed |-> {}, calls |-> calls,
                            table |-> Append(acc.table, Row(name, dirs[name]))])

\* table.sort_by(|a, b| a.0.cmp(&b.0)): insertion of each row before the
\* first row whose name is greater (names are the keys of a map: no two
\* rows are equal).
RECURSIVE InsertRow(_, _)
InsertRow(row, sorted) ==
    IF sorted = <<>> THEN <<row>>
    ELSE IF StrLess(row.name, Head(sorted).name) THEN <<row>> \o sorted
    ELSE <<Head(sorted)>> \o InsertRow(row, Tail(sorted))

\* The table left in iteration order.
SortOmitted(table) == table

RECURSIVE SortByName(_)
SortByName(table) ==
    IF table = <<>> THEN <<>>
    ELSE InsertRow(Head(table), SortByName(Tail(table)))

\* Command::List.  The table is printed only when the loop ran to its end.
List(order, fault, readFails) ==
    LET cf == EnforceConfig(readFails)
        run == ListLoop(order, fault,
                        [res |-> "", failed |-> {}, calls |-> <<>>, table |-> <<>>])
    IN  IF ~cf.ok THEN Abort(cf.err)
        ELSE Outcome(home, config, dirs, run.res, run.calls,
                     [order |-> order, table |-> run.table, failed |-> run.failed,
                      faulty |-> Faulty(cf.value.dependencies, fault),
                      output |-> IF run.res = "ok" THEN SortByName(run.table) ELSE <<>>])

----------------------------------------------------------------------------
(* The state machine *)

\* The filesystem as an invocation finds it
Snapshot == [home |-> home, config |-> config, dirs |-> dirs]

Report(op, repo, branch, o) ==
    [op |-> op, res |-> o.res, repo |-> repo, branch |-> branch,
     calls |-> o.calls, info |-> o.info, pre |-> Snapshot]

\* The invocations of SpecRace that run at the same time, each a vend.
Procs == {"p", "q"}

\* A vend that has not started.  pc: where the invocation stands; cf: the
\* manifest it loaded; res: what it returned; rivals: the vends that were
\* between their load and their save when this one saved; after: the vends
\* that had saved before this one did; cleaned: where this vend stood when
\* a clean ran.
NoProc ==
    [pc |-> "idle", repo |-> <<>>, branch |-> None,
     cf |-> Config("", EmptyMap), res |-> "",
     rivals |-> {}, after |-> {}, cleaned |-> "no"]

\* No invocation is running.
Idle ==
    [op |-> "none", res |-> "ok", repo |-> <<>>, branch |-> None,
     calls |-> <<>>, info |-> NoInfo,
     pre |-> [home |-> FALSE, config |-> NoFile, dirs |-> [n \in Names |-> NoDir]]]

\* One invocation: `process` runs to its end from an idle system.
Commit(op, repo, branch, o) ==
    /\ last = Idle
    /\ home' = o.home
    /\ config' = o.config
    /\ dirs' = o.dirs
    /\ last' = Report(op, repo, branch, o)
    /\ UNCHANGED <<upstream, procs>>

Init ==
    /\ home = FALSE
    /\ config = NoFile
    /\ dirs = [n \in Names |-> NoDir]
    /\ last = Idle
    /\ upstream = [r \in Locators |-> [b \in UpstreamBranches |-> 1]]
    /\ procs = [p \in Procs |-> NoProc]

\* The filesystem call of init that fails, or "none"; init makes none when
\* the managed root exists.
CmdInit ==
    \E fsFault \in {"none", "create_dir", "open", "write_all"} :
        /\ home => fsFault = "none"
        /\ Commit("init", <<>>, None, Initialize(fsFault))

\* Whether reading the manifest file can fail: only a file that exists is
\* read.
ReadFaults == IF config.kind = "absent" THEN {FALSE} ELSE BOOLEAN

\* The faults a vend of `repo` can meet: none before the manifest has been
\* loaded, and none in a clone that git2 refuses at once.
VendFaultsAt(repo, readFails) ==
    IF readFails \/ ~from_str(config).ok THEN {"none"}
    ELSE IF ~CloneInto(repo, DeriveName(repo), "none").ok THEN {"none"}
    ELSE VendFaults

CmdVend ==
    \E repo \in Locators, branch \in Branches, readFails \in ReadFaults :
      \E fault \in VendFaultsAt(repo, readFails) :
        Commit("vend", repo, branch, Vend(repo, branch, fault, readFails))

\* What is under the managed root
Present == { n \in Names : dirs[n].kind # "absent" }

\* fault: remove_dir_all fails, after it removed the directories goneDirs
\* and, with goneConfig, the manifest file.
CmdClean ==
    \E readFails \in ReadFaults :
      \E fault \in (IF readFails \/ ~from_str(config).ok THEN {FALSE} ELSE BOOLEAN) :
        \E goneConfig \in (IF fault THEN BOOLEAN ELSE {FALSE}),
           goneDirs \in (IF fault THEN SUBSET Present ELSE {{}}) :
          Commit("clean", <<>>, None, Clean(fault, goneConfig, goneDirs, readFails))

\* The iteration orders of a HashMap with the keys S
Orders(S) ==
    { o \in [1..Cardinality(S) -> S] : \A i, j \in 1..Cardinality(S) : o[i] = o[j] => i = j }

\* The manifest's dependencies, when the file decodes
Declared ==
    IF from_str(config).ok THEN from_str(config).value.dependencies ELSE EmptyMap

\* The declared dependencies whose directory holds a repository
Openable == { m \in DOMAIN Declared : dirs[m].kind = "repo" }

\* The provider faults an update can meet: one of the calls made for a
\* dependency whose directory holds a repository, or none.
UpdateFaults ==
    {NoFault} \cup
    UNION { { Fault(n, i) : i \in 1..Len(UpdateSteps(Declared[n])) } : n \in Openable }

\* The same for list
ListFaults ==
    {NoFault} \cup { Fault(n, i) : n \in Openable, i \in 1..Len(ListSteps) }

CmdUpdate ==
    \/ /\ config.kind # "absent"
       /\ Commit("update", <<>>, None, Update(<<>>, NoFault, TRUE))
    \/ \E order \in Orders(DOMAIN Declared), fault \in UpdateFaults :
        Commit("update", <<>>, None, Update(order, fault, FALSE))

CmdList ==
    \/ /\ config.kind # "absent"
       /\ Commit("list", <<>>, None, List(<<>>, NoFault, TRUE))
    \/ \E order \in Orders(DOMAIN Declared), fault \in ListFaults :
        Commit("list", <<>>, None, List(order, fault, FALSE))

\* main prints what process returned and the process exits.
Exit ==
    /\ last # Idle
    /\ last' = Idle
    /\ UNCHANGED <<home, config, dirs, upstream, procs>>

Next == CmdInit \/ CmdVend \/ CmdClean \/ CmdUpdate \/ CmdList \/ Exit

Spec == Init /\ [][Next]_vars

\* The upstream repositories are not the program's: somebody pushes to a
\* branch of one of them between two invocations.
Pushed == { rb \in Locators \X UpstreamBranches : upstream[rb[1]][rb[2]] > 1 }

Push ==
    \E r \in Locators, b \in UpstreamBranches :
        /\ last = Idle
        /\ Cardinality(Pushed \cup {<<r, b>>}) <= MaxPushes
        /\ upstream[r][b] <= MaxPushes
        /\ upstream' = [upstream EXCEPT ![r][b] = @ + 1]
        /\ UNCHANGED <<home, config, dirs, last, procs>>

NextUpstream == Next \/ Push

\* The program with upstream repositories that move
SpecUpstream == Init /\ [][NextUpstream]_vars

----------------------------------------------------------------------------
(* Invocations that run at the same time: the steps of vend, one at a time *)

\* No vend of Procs has started
Quiet == \A p \in Procs : procs[p].pc = "idle"

\* The vends between their load and their save
InFlight == { p \in Procs : procs[p].pc \in {"loaded", "cloned"} }

\* The vends that have written the manifest
Saved == { p \in Procs : procs[p].pc = "done" /\ procs[p].res = "ok" }

\* The locators of the concurrent vends: the ones that derive a name (a
\* clone into the managed root itself is left to the sequential program).
RaceLocators == { l \in Locators : DeriveName(l) # <<>> }

\* let mut config_file = enforce_config()?;
VendLoad(p) ==
    \E repo \in RaceLocators, branch \in Branches :
        LET cf == EnforceConfig(FALSE)
        IN  /\ procs[p].pc = "idle"
            /\ procs' = [procs EXCEPT ![p] =
                           IF cf.ok
                           THEN [NoProc EXCEPT !.pc = "loaded", !.repo = repo,
                                               !.branch = branch, !.cf = cf.value]
                           ELSE [NoProc EXCEPT !.pc = "done", !.repo = repo,
                                               !.branch = branch, !.res = cf.err]]
            /\ UNCHANGED <<home, config, dirs, last, upstream>>

\* Repository::clone(&repo, home.join(name)).map_err(..)?: git2 makes the
\* missing directories of the destination's path, the managed root too.
VendClone(p) ==
    LET name == DeriveName(procs[p].repo)
        cloned == CloneInto(procs[p].repo, name, "none")
    IN  /\ procs[p].pc = "loaded"
        /\ dirs' = cloned.dirs
        /\ home' = (home \/ cloned.ok)
        /\ procs' = [procs EXCEPT ![p].pc = IF cloned.ok THEN "cloned" ELSE "done",
                                  ![p].res = IF cloned.ok THEN ""
                                             ELSE "Can't clone repository"]
        /\ UNCHANGED <<config, last, upstream>>

\* The match on branch, the insert and std::fs::write(config, ..)?, which
\* fails when the managed root is not there.
VendSave(p) ==
    LET name == DeriveName(procs[p].repo)
        fault == IF home THEN "none" ELSE "write"
    IN  /\ procs[p].pc = "cloned"
        /\ config' = SaveInserted(procs[p].cf, name,
                                  VendDep(RepoPath(name), procs[p].branch), fault)
        /\ procs' = [procs EXCEPT ![p].pc = "done",
                                  ![p].res = IF home THEN "ok"
                                             ELSE "Can't write to config file",
                                  ![p].rivals = InFlight \ {p},
                                  ![p].after = Saved]
        /\ UNCHANGED <<home, dirs, last, upstream>>

\* A clean that runs from its start to its end, and removes the managed
\* root, while a vend is between its load and its save.
RaceClean ==
    LET o == Clean(FALSE, FALSE, {}, FALSE)
    IN  /\ InFlight # {}
        /\ \A p \in Procs : procs[p].cleaned = "no"
        /\ o.res = "ok"
        /\ home' = o.home
        /\ config' = o.config
        /\ dirs' = o.dirs
        /\ procs' = [p \in Procs |->
                       IF p \in InFlight
                       THEN [procs[p] EXCEPT !.cleaned = procs[p].pc]
                       ELSE procs[p]]
        /\ UNCHANGED <<last, upstream>>

\* An invocation that runs from its start to its end before the
\* concurrent ones, and leaves what `o` says.
Settle(o) ==
    /\ Quiet
    /\ home' = o.home
    /\ config' = o.config
    /\ dirs' = o.dirs
    /\ UNCHANGED <<last, upstream, procs>>

\* The workspace the concurrent invocations find: one that inits, vends
\* and cleans that met no fault have built, one after the other.
Sequential ==
    \/ Settle(Initialize("none"))
    \/ \E repo \in Locators, branch \in Branches :
          Settle(Vend(repo, branch, "none", FALSE))
    \/ Settle(Clean(FALSE, FALSE, {}, FALSE))

NextRace ==
    \/ Sequential
    \/ \E p \in Procs : VendLoad(p) \/ VendClone(p) \/ VendSave(p)
    \/ RaceClean

\* The program with two vends, and a clean, that run at the same time
SpecRace == Init /\ [][NextRace]_vars

----------------------------------------------------------------------------
(* Properties.  Each is a predicate on the state an invocation leaves:     *)
(* `last` is the invocation, last.pre the filesystem it found.             *)

\* The manifest an invocation loaded (the file it found decodes)
PreDeps == from_str(last.pre.config).value.dependencies

\* The invocation got past enforce_config.
Loaded == last.op # "none" /\ last.info # NoInfo

FsUnchanged ==
    /\ home = last.pre.home
    /\ config = last.pre.config
    /\ dirs = last.pre.dirs

Issued(call, name) ==
    \E i \in 1..Len(last.calls) : last.calls[i].call = call /\ last.calls[i].name = name

\* C1: in an update run in which the provider fails for exactly one declared
\* dependency K, every other declared dependency is fetched (and checked
\* out, if pinned) and gets an Updated outcome, and K is the recorded
\* failure.
C1_UpdateIsolatesFailure ==
    (last.op = "update" /\ Loaded /\ Cardinality(last.info.faulty) = 1) =>
        /\ last.info.failed = last.info.faulty
        /\ \A n \in DOMAIN PreDeps \ last.info.faulty :
            /\ Issued("fetch", n)
            /\ PreDeps[n].tag = "DepWithHash" => Issued("checkout_head", n)
            /\ \E i \in 1..Len(last.info.updated) :
                 last.info.updated[i] = Updated(n, PreDeps[n])

\* C2: a vend whose clone fails returns the clone error and leaves the
\* manifest file as it found it.
C2_CloneFailureKeepsManifest ==
    (last.op = "vend" /\ Loaded /\ ~last.info.cloned) =>
        /\ last.res = "Can't clone repository"
        /\ config = last.pre.config

\* C2 witness: a clone failed on a manifest that declares a dependency.
C2_Witness ==
    /\ last.op = "vend" /\ Loaded /\ ~last.info.cloned
    /\ DOMAIN PreDeps # {}

\* C3: after a successful vend the entry under the derived name is
\* Dep when no branch was given, and DepWithHash holding the given branch
\* otherwise.
C3_VendRecordsVariant ==
    (last.op = "vend" /\ last.res = "ok") =>
        /\ from_str(config).ok
        /\ DeriveName(last.repo) \in DOMAIN Declared
        /\ LET entry == Declared[DeriveName(last.repo)]
           IN  /\ entry.tag = "Dep" <=> ~last.branch.some
               /\ last.branch.some =>
                    (entry.tag = "DepWithHash" /\ entry.branch = last.branch.val)

\* C3 witness: a successful vend -b rel.
C3_Witness ==
    /\ last.op = "vend" /\ last.res = "ok"
    /\ last.branch = Some("rel")

\* C4: a vend (no write fault) whose derived name is already declared and
\* whose clone directory exists from the earlier vend succeeds and leaves
\* the manifest with that entry replaced by the new one.
C4_RevendOverwrites ==
    (/\ last.op = "vend" /\ Loaded
     /\ last.info.fault = "none"
     /\ last.info.name \in DOMAIN PreDeps
     /\ last.pre.dirs[last.info.name].kind = "repo") =>
        /\ last.res = "ok"
        /\ config = to_string(Config(from_str(last.pre.config).value.version,
                        MapInsert(PreDeps, last.info.name,
                                  VendDep(RepoPath(last.info.name), last.branch))))

\* C5: with no manifest file, vend, update, list and clean fail with
\* NotInitialized, make no provider call and leave the filesystem as it is.
C5_NotInitializedTouchesNothing ==
    (last.op \in {"vend", "update", "list", "clean"} /\ last.pre.config.kind = "absent") =>
        /\ last.res = "NotInitialized"
        /\ last.calls = <<>>
        /\ FsUnchanged

\* C5 witness: a command ran without a manifest file while a clone
\* directory was under the managed root.
C5_Witness ==
    /\ last.op \in {"vend", "update", "list", "clean"}
    /\ last.pre.config.kind = "absent"
    /\ \E n \in Names : last.pre.dirs[n].kind = "repo"

\* C6: a clean that succeeds leaves no managed root, no manifest file and no
\* clone directory; a clean without a manifest file fails with
\* NotInitialized and removes nothing.
C6_CleanRemovesAllOrNothing ==
    /\ (last.op = "clean" /\ last.res = "ok") =>
          /\ ~home
          /\ config = NoFile
          /\ \A n \in Names : dirs[n] = NoDir
    /\ (last.op = "clean" /\ last.pre.config.kind = "absent") =>
          /\ last.res = "NotInitialized"
          /\ FsUnchanged

\* C6 witness: a clean succeeded on a workspace with a declared, cloned
\* dependency.
C6_Witness ==
    /\ last.op = "clean" /\ last.res = "ok"
    /\ \E n \in DOMAIN PreDeps : last.pre.dirs[n].kind = "repo"

\* C7: an init on an existing managed root succeeds and changes nothing,
\* and a successful init leaves the managed root existing (so the next init
\* is that no-op).
C7_InitIdempotent ==
    /\ (last.op = "init" /\ last.pre.home) => (last.res = "ok" /\ FsUnchanged)
    /\ (last.op = "init" /\ last.res = "ok") => home

\* C7 witness: init ran on a manifest that declares a dependency.
C7_Witness ==
    /\ last.op = "init"
    /\ from_str(last.pre.config).ok
    /\ DOMAIN PreDeps # {}
    /\ \E n \in Names : last.pre.dirs[n].kind = "repo"

\* C8: update and list leave the manifest file as they found it.
C8_UpdateListKeepManifest ==
    last.op \in {"update", "list"} => config = last.pre.config

\* C8 witness: an update over two dependencies failed after it had updated
\* one.
C8_Witness ==
    /\ last.op = "update" /\ Loaded
    /\ last.res # "ok"
    /\ Len(last.info.updated) >= 1

\* C9: in a list run in which the provider fails for exactly one declared
\* dependency, the output has a row for every other declared dependency.
C9_ListIsolatesFailure ==
    (last.op = "list" /\ Loaded /\ Cardinality(last.info.faulty) = 1) =>
        \A n \in DOMAIN PreDeps \ last.info.faulty :
            \E i \in 1..Len(last.info.output) : last.info.output[i].name = n

\* C10: when no provider call fails, list prints exactly one row per
\* declared dependency, in ascending order of name.
C10_ListRowsSorted ==
    (last.op = "list" /\ Loaded /\ last.info.faulty = {}) =>
        LET out == last.info.output
        IN  /\ last.res = "ok"
            /\ Len(out) = Cardinality(DOMAIN PreDeps)
            /\ { out[i].name : i \in 1..Len(out) } = DOMAIN PreDeps
            /\ \A i, j \in 1..Len(out) : i < j => StrLess(out[i].name, out[j].name)

\* C10 witness: a list succeeded whose iteration order was not the sorted
\* order.
C10_Witness ==
    /\ last.op = "list" /\ Loaded
    /\ last.res = "ok"
    /\ last.info.table # last.info.output

\* The dependencies a manifest file declares (none when it is missing or
\* does not decode)
DepsOf(file) ==
    IF from_str(file).ok THEN from_str(file).value.dependencies ELSE EmptyMap

\* Every manifest entry has a clone directory.
EntriesHaveClones(file, d) == \A n \in DOMAIN DepsOf(file) : d[n].kind = "repo"

\* Every directory under the managed root has a manifest entry.
NoOrphans(file, d) == \A n \in Names : d[n].kind # "absent" => n \in DOMAIN DepsOf(file)

\* C14 as stated: in every state reachable by sequential invocations, with
\* provider and filesystem calls allowed to fail, every manifest entry has
\* a clone directory.
C14_EntriesAlwaysHaveClones == EntriesHaveClones(config, dirs)

\* C14 as amended: every invocation other than a clean whose recursive
\* removal fails part-way leaves every manifest entry with a clone
\* directory when it found the workspace so.
C14_EntriesKeepClones ==
    (/\ last.op # "none"
     /\ ~(last.op = "clean" /\ last.res = "Can't remove .vendman directory")
     /\ EntriesHaveClones(last.pre.config, last.pre.dirs)) =>
        EntriesHaveClones(config, dirs)

\* C14 witness: a vend added a second entry and its clone to a workspace
\* whose first entry had its clone.
C14_Witness ==
    /\ last.op = "vend" /\ last.res = "ok"
    /\ EntriesHaveClones(last.pre.config, last.pre.dirs)
    /\ Cardinality(DOMAIN DepsOf(last.pre.config)) = 1
    /\ Cardinality(DOMAIN DepsOf(config)) = 2

\* C15 as stated: in every state reachable by sequential invocations, with
\* provider and filesystem calls allowed to fail, every directory under the
\* managed root has a manifest entry.
C15_NeverOrphans == NoOrphans(config, dirs)

\* C15 as amended: every invocation other than a vend whose clone fails, a
\* vend whose manifest write fails and a clean whose recursive removal
\* fails leaves no directory without a manifest entry when it found none.
C15_NoNewOrphans ==
    (/\ last.op # "none"
     /\ ~(last.op = "vend" /\ last.res \in {"Can't clone repository",
                                             "Can't write to config file"})
     /\ ~(last.op = "clean" /\ last.res = "Can't remove .vendman directory")
     /\ NoOrphans(last.pre.config, last.pre.dirs)) =>
        NoOrphans(config, dirs)

\* C15 witness: a clean succeeded on a workspace that held clones, all of
\* them declared.
C15_Witness ==
    /\ last.op = "clean" /\ last.res = "ok"
    /\ NoOrphans(last.pre.config, last.pre.dirs)
    /\ Cardinality({ n \in Names : last.pre.dirs[n].kind = "repo" }) >= 2

\* C16: init, vend, update and list never remove a name from the manifest,
\* and a vend changes no entry but the one under its derived name.
C16_NamesNeverLost ==
    (last.op \in {"init", "vend", "update", "list"} /\ from_str(last.pre.config).ok) =>
        /\ from_str(config).ok
        /\ DOMAIN PreDeps \subseteq DOMAIN Declared
        /\ \A n \in DOMAIN PreDeps :
             (last.op # "vend" \/ n # DeriveName(last.repo)) => Declared[n] = PreDeps[n]

\* C18: after an init that returned Ok the manifest file exists and loads.
C18_InitOkMeansInitialized ==
    (last.op = "init" /\ last.res = "ok") => from_str(config).ok

\* The places of the calls `call` made for `name` in last.calls
CallsAt(call, name) ==
    { i \in 1..Len(last.calls) : last.calls[i].call = call /\ last.calls[i].name = name }

WasUpdated(n) == \E i \in 1..Len(last.info.updated) : last.info.updated[i].name = n

\* C11: after a successful vend -b b the head of the clone is on b, and a
\* list reports, for every dependency pinned to a branch, that branch.
C11_CloneOnGivenBranch ==
    /\ (last.op = "vend" /\ last.res = "ok" /\ last.branch.some) =>
          dirs[last.info.name].head.ref = last.branch.val
    /\ (last.op = "list" /\ last.res = "ok") =>
          \A i \in 1..Len(last.info.output) :
              LET dep == PreDeps[last.info.output[i].name]
              IN  dep.tag = "DepWithHash" => last.info.output[i].branch = dep.branch

\* C17: in an update, a Tracking dependency gets a fetch of origin and no
\* checkout; a Pinned one gets a fetch of origin restricted to its pinned
\* ref and then a checkout, issued only after the fetch; the ones that went
\* through are recorded as Updated(name) and Updated(name, ref).
C17_UpdateStepsPerVariant ==
    (last.op = "update" /\ Loaded) =>
        \A n \in DOMAIN PreDeps :
            LET dep == PreDeps[n]
                fetches == CallsAt("fetch", n)
                checkouts == CallsAt("checkout_head", n)
            IN  /\ \A i \in fetches : last.calls[i].remote = "origin"
                /\ dep.tag = "Dep" => checkouts = {}
                /\ dep.tag = "DepWithHash" =>
                     /\ \A i \in fetches : last.calls[i].refspecs = <<dep.branch>>
                     /\ \A j \in checkouts : \E i \in fetches : i < j
                /\ WasUpdated(n) =>
                     /\ fetches # {}
                     /\ dep.tag = "DepWithHash" => checkouts # {}
                     /\ \E i \in 1..Len(last.info.updated) :
                          last.info.updated[i] =
                            [name |-> n,
                             branch |-> IF dep.tag = "Dep" THEN None ELSE Some(dep.branch)]

\* C12: after a successful update, a dependency pinned to a branch that
\* has advanced upstream since it was cloned is listed with that branch as
\* its ref and the upstream tip of that branch as its hash.
C12_UpdateMovesHeadToFetchedTip ==
    (last.op = "update" /\ last.res = "ok") =>
        \A n \in DOMAIN PreDeps :
            LET dep == PreDeps[n]
                origin == dirs[n].origin
            IN  (/\ dep.tag = "DepWithHash"
                 /\ dep.branch \in UpstreamBranches
                 /\ last.pre.dirs[n].remotes[dep.branch] < upstream[origin][dep.branch]) =>
                    /\ Row(n, dirs[n]).branch = dep.branch
                    /\ Row(n, dirs[n]).hash =
                         CommitId(origin, dep.branch, upstream[origin][dep.branch])

\* The name a concurrent vend derives, and the manifest its save writes:
\* the one it loaded with its own entry inserted.
VendName(p) == DeriveName(procs[p].repo)

Written(p) ==
    to_string(Config(procs[p].cf.version,
                     MapInsert(procs[p].cf.dependencies, VendName(p),
                               VendDep(RepoPath(VendName(p)), procs[p].branch))))

\* Two vends with different names have both returned Ok, no clean ran, q
\* saved first and p had loaded by then: both loaded before either saved.
RacedSaves(p, q) ==
    /\ p # q
    /\ procs[p].pc = "done" /\ procs[p].res = "ok"
    /\ procs[q].pc = "done" /\ procs[q].res = "ok"
    /\ procs[p].cleaned = "no" /\ procs[q].cleaned = "no"
    /\ VendName(p) # VendName(q)
    /\ p \in procs[q].rivals
    /\ q \in procs[p].after

\* C13: when two vends with different names both load the manifest before
\* either saves, the manifest at the end is the one the later save wrote,
\* it has no entry under the earlier saver's name, and both clones exist.
C13_LastWriterWins ==
    \A p, q \in Procs :
        RacedSaves(p, q) =>
            /\ config = Written(p)
            /\ VendName(q) \notin DOMAIN DepsOf(config)
            /\ dirs[VendName(p)].kind = "repo"
            /\ dirs[VendName(q)].kind = "repo"

C13_Witness ==
    /\ RacedSaves("p", "q")
    /\ procs["q"].branch.some
    /\ VendName("p") \in DOMAIN DepsOf(config)

\* C19: when a clean ran from its start to its end between a vend's load
\* and its clone, and the vend then returned Ok, every entry of the
\* manifest has a clone directory.
C19_VendAcrossCleanKeepsClones ==
    \A p \in Procs :
        (/\ procs[p].pc = "done" /\ procs[p].res = "ok"
         /\ procs[p].cleaned = "loaded"
         /\ \A q \in Procs \ {p} : procs[q].pc = "idle") =>
            EntriesHaveClones(config, dirs)

=============================================================================
